---- MODULE Spec2Model ----
(***************************************************************************)
(* Authentication / session layer of the environmental-report web app.     *)
(*                                                                         *)
(*   auth.ts     (src/unnamed/part_001)  tokens, passwords, login,         *)
(*                                       register, logout, form handlers   *)
(*   session.ts  (src/unnamed/part_002)  second getSession/getCurrentUser/ *)
(*                                       requireAuth implementation, the   *)
(*                                       admin check                       *)
(*   schema      (src/unnamed/part_005)  model User                        *)
(*   db.ts       (src/unnamed/part_005)  the User repository               *)
(*   dashboard   (src/unnamed/part_000)  DashboardPage                     *)
(*                                                                         *)
(* JavaScript strings are tuples of one-character strings, so that length  *)
(* and the e-mail regular expression are computed, not assumed.  The       *)
(* values undefined and null are two tuples no string is equal to.         *)
(***************************************************************************)
EXTENDS Integers, Sequences, FiniteSets, TLC

VARIABLES
    users,   \* the User table: a set of rows
    jar,     \* the client's cookie jar: cookie name -> cookie
    now,     \* the clock, in seconds (Date.now() / 1000)
    pend,    \* the calls suspended at an await, with their local variables
    last     \* the call that returned last: op, args, injected fault, result

vars == <<users, jar, now, pend, last>>

----------------------------------------------------------------------------
(* Bounds of the model                                                     *)

MaxUsers == 2        \* rows the User table may hold
MaxLate == 1         \* clock positions at and after a first token's expiry

----------------------------------------------------------------------------
(* JavaScript values                                                       *)

Undefined == <<"undefined">>
Null == <<"null">>
Empty == <<>>

\* !v for a string-or-null value
Falsy(v) == v = Empty \/ v = Null \/ v = Undefined

\* obj.f : a property the object does not have reads as undefined
Get(obj, f) == IF f \in DOMAIN obj THEN obj[f] ELSE Undefined

\* JSON.stringify of an object drops the keys whose value is undefined
Jsonify(obj) == [k \in {f \in DOMAIN obj : obj[f] # Undefined} |-> obj[k]]

----------------------------------------------------------------------------
(* Inputs                                                                  *)

Ada == <<"A", "d", "a">>
Names == {Empty, Ada}

MailA == <<"a", "@", "b", ".", "c">>
MailC == <<"c", "@", "b", ".", "a">>
MailNoTld == <<"a", "@", "b">>
MailTab == <<"a", "\t", "@", "b", ".", "c">>
Emails == {Empty, MailNoTld, MailA, MailC}

Pw7 == <<"p", "p", "p", "p", "p", "p", "p">>
Pw8 == <<"p", "p", "p", "p", "p", "p", "p", "p">>
Passwords == {Empty, Pw7, Pw8}

\* what register / registerHandler are called with directly (no form in front)
DirectInputs ==
    {<<Ada, MailA, Pw8>>, <<Ada, MailC, Pw8>>, <<Empty, MailNoTld, Pw7>>}

\* form submissions <<name, email, password, confirmPassword>>: two that pass
\* every check and one or two for each check that can fail
FormInputs ==
    {<<Ada, MailA, Pw8, Pw8>>, <<Ada, MailC, Pw8, Pw8>>,
     <<Empty, MailA, Pw8, Pw8>>, <<Ada, Empty, Pw8, Pw8>>,
     <<Ada, MailA, Empty, Empty>>, <<Ada, MailA, Pw8, Empty>>,
     <<Ada, MailNoTld, Pw8, Pw8>>, <<Ada, MailA, Pw8, Pw7>>,
     <<Ada, MailTab, Pw8, Pw8>>,
     <<Ada, MailA, Pw7, Pw7>>, <<Empty, MailNoTld, Pw7, Pw7>>}

\* credentials <<email, password>> presented to the login entry points
LoginInputs ==
    {<<MailA, Pw8>>, <<MailA, Pw7>>, <<MailC, Pw8>>, <<MailNoTld, Pw7>>,
     <<MailNoTld, Pw8>>, <<Empty, Pw8>>, <<MailA, Empty>>}

\* the two registrations that pass every check
Accounts == {<<Ada, MailA, Pw8>>, <<Ada, MailC, Pw8>>}

\* the credentials of the two accounts and a wrong password
Credentials == {<<MailA, Pw8>>, <<MailC, Pw8>>, <<MailA, Pw7>>}

Slots == {"r1", "r2"}
Idle == [op |-> "idle"]

NullObj == [isNull |-> TRUE]      \* null where an object is expected
Void == [isVoid |-> TRUE]         \* what a Promise<void> resolves to

Faults == {"none", "findUnique", "compare", "hash", "create", "sign", "cookies"}

----------------------------------------------------------------------------
(* Configuration: auth.ts 10-19, session.ts 12-14                          *)

JWT_SECRET == "your-secret-key"
COOKIE_NAME == "session_token"
ADMIN_COOKIE == "admin-session"
NODE_ENV == "development"
MAX_AGE == 30 * 24 * 60 * 60
COOKIE_OPTIONS ==
    [httpOnly |-> TRUE, secure |-> (NODE_ENV = "production"),
     sameSite |-> "lax", path |-> "/", maxAge |-> MAX_AGE]
EXPIRES_IN == 30 * 24 * 60 * 60          \* expiresIn: '30d'
SALT_ROUNDS == 10
MIN_PASSWORD == 8

\* the clock positions: issue time 0, then the seconds around its expiry
Times == {0} \cup {EXPIRES_IN - 1 + k : k \in 0..MaxLate}

----------------------------------------------------------------------------
(* Messages                                                                *)

MsgInvalid == "Invalid credentials"
MsgExists == "User already exists"
MsgLoginError == "An error occurred during login"
MsgRegisterError == "An error occurred during registration"
MsgFieldsRequired == "All fields are required"
MsgLoginRequired == "Email and password are required"
MsgBadEmail == "Please enter a valid email address"
MsgMismatch == "Passwords do not match"
MsgShort == "Password must be at least 8 characters long"

----------------------------------------------------------------------------
(* Token Service: jsonwebtoken sign / verify                               *)

\* HMAC of the payload under a key: equal only for equal key and payload
Hmac(key, claims, iat, exp) ==
    [key |-> key, claims |-> claims, iat |-> iat, exp |-> exp]

\* a token that signs the id and e-mail only
generateToken_noName(user, t) ==
    LET claims == Jsonify([id |-> user.id, email |-> user.email])
    IN  [kind |-> "jwt", claims |-> claims, iat |-> t, exp |-> t + EXPIRES_IN,
         sig |-> Hmac(JWT_SECRET, claims, t, t + EXPIRES_IN)]

\* sign({ id, email, name }, JWT_SECRET, { expiresIn: '30d' }) at time t
generateToken(user, t) ==
    LET claims == Jsonify([id |-> user.id, email |-> user.email, name |-> user.name])
    IN  [kind |-> "jwt", claims |-> claims, iat |-> t, exp |-> t + EXPIRES_IN,
         sig |-> Hmac(JWT_SECRET, claims, t, t + EXPIRES_IN)]

\* a verify that still takes a token in the second it expires
jwtThrows_lenient(token, secret, t) ==
    \/ token.kind # "jwt"
    \/ token.sig # Hmac(secret, token.claims, token.iat, token.exp)
    \/ t > token.exp

\* jsonwebtoken's verify throws on a malformed token, on a signature that is
\* not the HMAC of the payload under the secret, and once now >= exp
jwtThrows(token, secret, t) ==
    \/ token.kind # "jwt"
    \/ token.sig # Hmac(secret, token.claims, token.iat, token.exp)
    \/ t >= token.exp

\* the decoded payload: the claims with iat and exp
jwtPayload(token) ==
    [k \in DOMAIN token.claims \cup {"iat", "exp"} |->
        IF k = "iat" THEN token.iat
        ELSE IF k = "exp" THEN token.exp ELSE token.claims[k]]

\* try { return verify(token, JWT_SECRET) } catch { return null }
verifyToken(token, t) ==
    IF jwtThrows(token, JWT_SECRET, t) THEN NullObj ELSE jwtPayload(token)

----------------------------------------------------------------------------
(* Password Hasher: bcryptjs                                               *)

Salts == {"s1"}

\* the one-way function of bcrypt, kept symbolic
Bcrypt(password, salt) == <<salt, password>>

\* a hasher whose digest is the password itself
hashPassword_plain(password, salt) ==
    [rounds |-> SALT_ROUNDS, salt |-> salt, hash |-> password]

\* genSalt(10) then hash(password, salt); the digest embeds its salt
hashPassword(password, salt) ==
    [rounds |-> SALT_ROUNDS, salt |-> salt, hash |-> Bcrypt(password, salt)]

\* bcrypt.compare recomputes with the embedded salt
comparePassword(password, digest) ==
    digest.hash = Bcrypt(password, digest.salt)

----------------------------------------------------------------------------
(* Cookie adapter: next/headers cookies()                                  *)

NoValue == [kind |-> "undefined"]
Text(s) == [kind |-> "text", text |-> s]

\* cookieStore.get(name)?.value
CookieGet(j, name) == IF name \in DOMAIN j THEN j[name].value ELSE NoValue

\* !token : undefined or the empty string
NoToken(v) == v.kind = "undefined" \/ (v.kind = "text" /\ v.text = Empty)

\* cookieStore.set({ name, value, ...options })
CookieSet(j, name, value, options) ==
    [n \in DOMAIN j \cup {name} |->
        IF n = name THEN [value |-> value] @@ options ELSE j[n]]

\* a delete that removes nothing
CookieDelete_noop(j, name) == j

\* cookieStore.delete(name)
CookieDelete(j, name) == [n \in DOMAIN j \ {name} |-> j[n]]

----------------------------------------------------------------------------
(* The User table: model User, email @unique, user_id @default(uuid())     *)

Digits == <<"1", "2", "3", "4", "5", "6">>
uuid(us) == <<"u", Digits[Cardinality(us) + 1]>>

\* a lookup that matches the e-mail against the wrong column
findUnique_wrongColumn(us, email) ==
    IF \E u \in us : u.user_id = email
    THEN CHOOSE u \in us : u.user_id = email
    ELSE NullObj

\* prisma.user.findUnique({ where: { email } })
findUnique(us, email) ==
    IF \E u \in us : u.email = email
    THEN CHOOSE u \in us : u.email = email
    ELSE NullObj

\* the row prisma.user.create({ data: { name, email, password } }) inserts
NewRow(us, name, email, digest) ==
    [user_id |-> uuid(us), email |-> email, name |-> name, password |-> digest]

\* { id: user.id, email: user.email, name: user.name } read off a row
Identity(row) ==
    [id |-> Get(row, "id"), email |-> Get(row, "email"), name |-> Get(row, "name")]

----------------------------------------------------------------------------
(* Results                                                                 *)

Returned(v) == [kind |-> "return", value |-> v]
Raised == [kind |-> "raise"]
Redirect(to) == [kind |-> "redirect", to |-> to]

Args(name, email, password, confirm) ==
    [name |-> name, email |-> email, password |-> password, confirm |-> confirm]

\* the call that has just returned
Return(op, args, fault, result) ==
    last' = [op |-> op, args |-> args, fault |-> fault, result |-> result]

----------------------------------------------------------------------------
(* Validation in the form handlers                                         *)

\* the characters \s matches; those outside ASCII are written by code point
WhiteSpace ==
    {" ", "\t", "\n", "\r", "\f", "U+000B", "U+00A0", "U+1680", "U+2000",
     "U+2001", "U+2002", "U+2003", "U+2004", "U+2005", "U+2006", "U+2007",
     "U+2008", "U+2009", "U+200A", "U+2028", "U+2029", "U+202F", "U+205F",
     "U+3000", "U+FEFF"}

\* /^[^\s@]+@[^\s@]+\.[^\s@]+$/
isValidEmail(email) ==
    \E i \in 1..Len(email), j \in 1..Len(email) :
        /\ 1 < i /\ i + 1 < j /\ j < Len(email)
        /\ email[i] = "@" /\ email[j] = "."
        /\ \A k \in 1..Len(email) :
               k # i => email[k] \notin WhiteSpace \cup {"@"}

\* the length check off by one: password.length <= 8
handleRegisterError_offByOne(name, email, password, confirm) ==
    IF Falsy(name) \/ Falsy(email) \/ Falsy(password) \/ Falsy(confirm)
    THEN MsgFieldsRequired
    ELSE IF ~isValidEmail(email) THEN MsgBadEmail
    ELSE IF password # confirm THEN MsgMismatch
    ELSE IF Len(password) <= MIN_PASSWORD THEN MsgShort
    ELSE ""

\* the checks of handleRegister in order; "" when every check passes
handleRegisterError(name, email, password, confirm) ==
    IF Falsy(name) \/ Falsy(email) \/ Falsy(password) \/ Falsy(confirm)
    THEN MsgFieldsRequired
    ELSE IF ~isValidEmail(email) THEN MsgBadEmail
    ELSE IF password # confirm THEN MsgMismatch
    ELSE IF Len(password) < MIN_PASSWORD THEN MsgShort
    ELSE ""

\* the checks of handleLogin in order; "" when every check passes
handleLoginError(email, password) ==
    IF Falsy(email) \/ Falsy(password) THEN MsgLoginRequired
    ELSE IF ~isValidEmail(email) THEN MsgBadEmail
    ELSE ""

----------------------------------------------------------------------------
(* register, registerHandler, handleRegister                               *)

\* a register whose failure result carries the cause of the exception
registerReply_leaky(outcome, user) ==
    IF outcome = "exists" THEN [success |-> FALSE, message |-> MsgExists]
    ELSE IF outcome = "error"
    THEN [success |-> FALSE, message |-> MsgRegisterError, error |-> "P1001"]
    ELSE [success |-> TRUE, user |-> user]

\* the return sites of register: outcome is "exists", "error" or "ok"
registerReply(outcome, user) ==
    IF outcome = "exists" THEN [success |-> FALSE, message |-> MsgExists]
    ELSE IF outcome = "error" THEN [success |-> FALSE, message |-> MsgRegisterError]
    ELSE [success |-> TRUE, user |-> user]

\* the return sites of registerHandler; NextResponse.json serialises the body
registerHandlerReply(outcome, user) ==
    IF outcome = "exists"
    THEN [status |-> 409, body |-> [success |-> FALSE, message |-> MsgExists]]
    ELSE IF outcome = "error"
    THEN [status |-> 500, body |-> [success |-> FALSE, message |-> MsgRegisterError]]
    ELSE [status |-> 200, body |-> [success |-> TRUE, user |-> Jsonify(user)]]

\* what handleRegister makes of register's result
handleRegisterReply(outcome, user) ==
    LET result == registerReply(outcome, user)
    IN  IF ~result.success THEN [error |-> result.message] ELSE [success |-> TRUE]

RegisterReply(op, outcome, user) ==
    IF op = "register" THEN registerReply(outcome, user)
    ELSE IF op = "registerHandler" THEN registerHandlerReply(outcome, user)
    ELSE handleRegisterReply(outcome, user)

\* registrations that have done their lookup and not yet their insert
InFlight == {s \in Slots : pend[s] # Idle /\ pend[s].stage = "insert"}

Finish(r) == pend' = [pend EXCEPT ![r] = Idle]

\* up to the first await: findUnique, the early return, or suspension
\* until the insert
RegisterStart(r, op, args, fault) ==
    /\ pend[r] = Idle
    /\ fault \in {"none", "findUnique"}
    /\ IF fault = "findUnique"
       THEN /\ Return(op, args, fault, RegisterReply(op, "error", NullObj))
            /\ UNCHANGED <<users, jar, now, pend>>
       ELSE IF findUnique(users, args.email) # NullObj
       THEN /\ Return(op, args, fault, RegisterReply(op, "exists", NullObj))
            /\ UNCHANGED <<users, jar, now, pend>>
       ELSE /\ Cardinality(users) + Cardinality(InFlight) < MaxUsers
            /\ pend' = [pend EXCEPT ![r] =
                           [op |-> op, args |-> args, stage |-> "insert"]]
            /\ UNCHANGED <<users, jar, now, last>>

\* await hashPassword, await prisma.user.create: the insert is refused by
\* the unique constraint on email when a row with that e-mail has appeared
\* meanwhile; an exception here goes to the catch and the call returns
RegisterCreate(r, fault, salt) ==
    /\ pend[r] # Idle
    /\ pend[r].stage = "insert"
    /\ fault \in {"none", "hash", "create"}
    /\ LET a == pend[r].args
           hashedPassword == hashPassword(a.password, salt)
           unique == findUnique(users, a.email) = NullObj
           newUser == NewRow(users, a.name, a.email, hashedPassword)
       IN  IF fault = "none" /\ unique
           THEN /\ users' = users \cup {newUser}
                /\ pend' = [pend EXCEPT ![r] =
                               [op |-> pend[r].op, args |-> a, stage |-> "sign",
                                newUser |-> newUser]]
                /\ UNCHANGED <<jar, now, last>>
           ELSE /\ Return(pend[r].op, a, fault,
                          RegisterReply(pend[r].op, "error", NullObj))
                /\ Finish(r)
                /\ UNCHANGED <<users, jar, now>>

\* resumed after the insert: generateToken signs at the clock of this step
\* and the call suspends at await generateToken (register once more at
\* await cookies()); an exception in the signing goes to the catch
RegisterSign(r, fault) ==
    /\ pend[r] # Idle
    /\ pend[r].stage = "sign"
    /\ fault \in {"none", "sign"}
    /\ LET p == pend[r]
           token == generateToken(Identity(p.newUser), now)
       IN  IF fault = "sign"
           THEN /\ Return(p.op, p.args, fault, RegisterReply(p.op, "error", NullObj))
                /\ Finish(r)
                /\ UNCHANGED <<users, jar, now>>
           ELSE /\ pend' = [pend EXCEPT ![r] =
                               [op |-> p.op, args |-> p.args, stage |-> "setCookie",
                                newUser |-> p.newUser, token |-> token]]
                /\ UNCHANGED <<users, jar, now, last>>

\* resumed with the token: cookieStore.set (response.cookies.set in the
\* route handler) and the return
RegisterSetCookie(r, fault) ==
    /\ pend[r] # Idle
    /\ pend[r].stage = "setCookie"
    /\ fault \in {"none", "cookies"}
    /\ LET p == pend[r]
       IN  /\ jar' = IF fault = "none"
                     THEN CookieSet(jar, COOKIE_NAME, p.token, COOKIE_OPTIONS)
                     ELSE jar
           /\ Return(p.op, p.args, fault,
                     RegisterReply(p.op, IF fault = "none" THEN "ok" ELSE "error",
                                   Identity(p.newUser)))
    /\ Finish(r)
    /\ UNCHANGED <<users, now>>

\* the steps a registration takes after its lookup
RegisterContinue(r, fault) ==
    \/ \E salt \in Salts : RegisterCreate(r, fault, salt)
    \/ RegisterSign(r, fault)
    \/ RegisterSetCookie(r, fault)

register(r, name, email, password, fault) ==
    RegisterStart(r, "register", Args(name, email, password, Undefined), fault)

registerHandler(r, name, email, password, fault) ==
    RegisterStart(r, "registerHandler", Args(name, email, password, Undefined), fault)

handleRegister(r, name, email, password, confirm, fault) ==
    LET error == handleRegisterError(name, email, password, confirm)
        args == Args(name, email, password, confirm)
    IN  IF error # ""
        THEN /\ pend[r] = Idle
             /\ fault = "none"
             /\ Return("handleRegister", args, fault, [error |-> error])
             /\ UNCHANGED <<users, jar, now, pend>>
        ELSE RegisterStart(r, "handleRegister", args, fault)

----------------------------------------------------------------------------
(* login, loginHandler, handleLogin                                        *)

LoginFaults == {"none", "findUnique", "compare", "sign", "cookies"}

\* a login that tells a wrong password from an unknown e-mail
loginResult_leaky(us, email, password, fault) ==
    IF fault = "findUnique" THEN [success |-> FALSE, message |-> MsgLoginError]
    ELSE LET user == findUnique(us, email) IN
    IF user = NullObj THEN [success |-> FALSE, message |-> "User not found"]
    ELSE IF fault = "compare" THEN [success |-> FALSE, message |-> MsgLoginError]
    ELSE IF ~comparePassword(password, user.password)
    THEN [success |-> FALSE, message |-> MsgInvalid]
    ELSE IF fault \in {"sign", "cookies"}
    THEN [success |-> FALSE, message |-> MsgLoginError]
    ELSE [success |-> TRUE, user |-> Identity(user)]

\* the result of login(email, password) when its lookup reads the table us
loginResult(us, email, password, fault) ==
    IF fault = "findUnique" THEN [success |-> FALSE, message |-> MsgLoginError]
    ELSE LET user == findUnique(us, email) IN
    IF user = NullObj THEN [success |-> FALSE, message |-> MsgInvalid]
    ELSE IF fault = "compare" THEN [success |-> FALSE, message |-> MsgLoginError]
    ELSE IF ~comparePassword(password, user.password)
    THEN [success |-> FALSE, message |-> MsgInvalid]
    ELSE IF fault \in {"sign", "cookies"}
    THEN [success |-> FALSE, message |-> MsgLoginError]
    ELSE [success |-> TRUE, user |-> Identity(user)]

\* the response of loginHandler(email, password) when its lookup reads the
\* table us; NextResponse.json serialises the body
loginHandlerResponse(us, email, password, fault) ==
    IF fault = "findUnique"
    THEN [status |-> 500, body |-> [success |-> FALSE, message |-> MsgLoginError]]
    ELSE LET user == findUnique(us, email) IN
    IF user = NullObj
    THEN [status |-> 401, body |-> [success |-> FALSE, message |-> MsgInvalid]]
    ELSE IF fault = "compare"
    THEN [status |-> 500, body |-> [success |-> FALSE, message |-> MsgLoginError]]
    ELSE IF ~comparePassword(password, user.password)
    THEN [status |-> 401, body |-> [success |-> FALSE, message |-> MsgInvalid]]
    ELSE IF fault \in {"sign", "cookies"}
    THEN [status |-> 500, body |-> [success |-> FALSE, message |-> MsgLoginError]]
    ELSE [status |-> 200,
          body |-> [success |-> TRUE, user |-> Jsonify(Identity(user))]]

\* what handleLogin makes of login's result
handleLoginReply(result) ==
    IF ~result.success THEN [error |-> result.message] ELSE [success |-> TRUE]

LoginReply(op, us, args, fault) ==
    IF op = "login" THEN loginResult(us, args.email, args.password, fault)
    ELSE IF op = "loginHandler"
    THEN loginHandlerResponse(us, args.email, args.password, fault)
    ELSE handleLoginReply(loginResult(us, args.email, args.password, fault))

\* the table as far as a call knows it from the row its lookup returned
Seen(user) == IF user = NullObj THEN {} ELSE {user}

\* up to the first await: prisma.user.findUnique reads the table
LoginLookup(r, op, args, fault) ==
    /\ pend[r] = Idle
    /\ fault \in {"none", "findUnique"}
    /\ IF fault = "findUnique"
       THEN /\ Return(op, args, fault, LoginReply(op, {}, args, fault))
            /\ UNCHANGED <<users, jar, now, pend>>
       ELSE /\ pend' = [pend EXCEPT ![r] =
                           [op |-> op, args |-> args, stage |-> "verify",
                            user |-> findUnique(users, args.email)]]
            /\ UNCHANGED <<users, jar, now, last>>

\* resumed with the row the lookup returned: the two 'Invalid credentials'
\* returns, await comparePassword, then generateToken signs at the clock of
\* this step and the call suspends at await generateToken (login once more
\* at await cookies())
LoginResume(r, fault) ==
    /\ pend[r] # Idle
    /\ pend[r].stage = "verify"
    /\ fault \in {"none", "compare", "sign"}
    /\ LET p == pend[r]
           seen == Seen(p.user)
           ok == loginResult(seen, p.args.email, p.args.password, fault).success
       IN  IF ok
           THEN /\ pend' = [pend EXCEPT ![r] =
                               [op |-> p.op, args |-> p.args, stage |-> "loginCookie",
                                user |-> p.user,
                                token |-> generateToken(Identity(p.user), now)]]
                /\ UNCHANGED <<users, jar, now, last>>
           ELSE /\ Return(p.op, p.args, fault, LoginReply(p.op, seen, p.args, fault))
                /\ Finish(r)
                /\ UNCHANGED <<users, jar, now>>

\* resumed with the token: cookieStore.set (response.cookies.set in the
\* route handler) and the return
LoginSetCookie(r, fault) ==
    /\ pend[r] # Idle
    /\ pend[r].stage = "loginCookie"
    /\ fault \in {"none", "cookies"}
    /\ LET p == pend[r]
       IN  /\ jar' = IF fault = "none"
                     THEN CookieSet(jar, COOKIE_NAME, p.token, COOKIE_OPTIONS)
                     ELSE jar
           /\ Return(p.op, p.args, fault, LoginReply(p.op, Seen(p.user), p.args, fault))
    /\ Finish(r)
    /\ UNCHANGED <<users, now>>

\* the steps a login takes after its lookup
LoginContinue(r, fault) ==
    \/ LoginResume(r, fault)
    \/ LoginSetCookie(r, fault)

login(r, email, password, fault) ==
    LoginLookup(r, "login", Args(Undefined, email, password, Undefined), fault)

loginHandler(r, email, password, fault) ==
    LoginLookup(r, "loginHandler", Args(Undefined, email, password, Undefined), fault)

handleLogin(r, email, password, fault) ==
    LET error == handleLoginError(email, password)
        args == Args(Undefined, email, password, Undefined)
    IN  IF error # ""
        THEN /\ pend[r] = Idle
             /\ fault = "none"
             /\ Return("handleLogin", args, fault, [error |-> error])
             /\ UNCHANGED <<users, jar, now, pend>>
        ELSE LoginLookup(r, "handleLogin", args, fault)

----------------------------------------------------------------------------
(* logout, logoutHandler                                                   *)

NoArgs == Args(Undefined, Undefined, Undefined, Undefined)

\* const cookieStore = await cookies(); cookieStore.delete(COOKIE_NAME)
logout(fault) ==
    /\ fault \in {"none", "cookies"}
    /\ jar' = IF fault = "cookies" THEN jar ELSE CookieDelete(jar, COOKIE_NAME)
    /\ Return("logout", NoArgs, fault,
              IF fault = "cookies" THEN Raised ELSE Returned(Void))
    /\ UNCHANGED <<users, now, pend>>

\* response.cookies.delete(COOKIE_NAME) on a { success: true } response
logoutHandler ==
    /\ jar' = CookieDelete(jar, COOKIE_NAME)
    /\ Return("logoutHandler", NoArgs, "none", [status |-> 200, body |-> [success |-> TRUE]])
    /\ UNCHANGED <<users, now, pend>>

----------------------------------------------------------------------------
(* Sessions: auth.ts                                                       *)

\* getSession of auth.ts: cookies() is awaited outside any try
getSession(j, t, fault) ==
    IF fault = "cookies" THEN Raised
    ELSE LET token == CookieGet(j, COOKIE_NAME) IN
         IF NoToken(token)
         THEN Returned([user |-> NullObj, isAuthenticated |-> FALSE])
         ELSE LET user == verifyToken(token, t)
              IN  Returned([user |-> user, isAuthenticated |-> (user # NullObj)])

getCurrentUser(j, t, fault) ==
    LET s == getSession(j, t, fault)
    IN  IF s.kind = "raise" THEN Raised ELSE Returned(s.value.user)

requireAuth(j, t, fault) ==
    LET user == getCurrentUser(j, t, fault)
    IN  IF user.kind = "raise" THEN Raised
        ELSE IF user.value = NullObj THEN Redirect("/login")
        ELSE user

----------------------------------------------------------------------------
(* Sessions: session.ts                                                    *)

session_verifyToken(token, t) ==
    IF jwtThrows(token, JWT_SECRET, t) THEN NullObj ELSE jwtPayload(token)

\* getSession of session.ts: the whole body is inside try / catch
session_getSession(j, t, fault) ==
    IF fault = "cookies"
    THEN Returned([user |-> NullObj, isAuthenticated |-> FALSE])
    ELSE LET token == CookieGet(j, COOKIE_NAME) IN
         IF NoToken(token)
         THEN Returned([user |-> NullObj, isAuthenticated |-> FALSE])
         ELSE LET user == session_verifyToken(token, t)
              IN  Returned([user |-> user, isAuthenticated |-> (user # NullObj)])

session_getCurrentUser(j, t, fault) ==
    LET s == session_getSession(j, t, fault)
    IN  IF s.kind = "raise" THEN Raised ELSE Returned(s.value.user)

\* a guard that forgets the redirect
session_requireAuth_noRedirect(j, t, fault) ==
    LET user == session_getCurrentUser(j, t, fault)
    IN  IF user.kind = "raise" THEN Raised ELSE user

session_requireAuth(j, t, fault) ==
    LET user == session_getCurrentUser(j, t, fault)
    IN  IF user.kind = "raise" THEN Raised
        ELSE IF user.value = NullObj THEN Redirect("/login")
        ELSE user

\* await requireAuth(); then the page is rendered
DashboardPage(j, t, fault) ==
    LET user == session_requireAuth(j, t, fault)
    IN  IF user.kind # "return" THEN user ELSE Returned([page |-> "dashboard"])

ReadFaults == {"none", "cookies"}

CallGetCurrentUser(fault) ==
    /\ fault \in ReadFaults
    /\ Return("getCurrentUser", NoArgs, fault, getCurrentUser(jar, now, fault))
    /\ UNCHANGED <<users, jar, now, pend>>

CallSessionGetCurrentUser(fault) ==
    /\ fault \in ReadFaults
    /\ Return("session.getCurrentUser", NoArgs, fault,
              session_getCurrentUser(jar, now, fault))
    /\ UNCHANGED <<users, jar, now, pend>>

CallRequireAuth(fault) ==
    /\ fault \in ReadFaults
    /\ Return("requireAuth", NoArgs, fault, requireAuth(jar, now, fault))
    /\ UNCHANGED <<users, jar, now, pend>>

CallSessionRequireAuth(fault) ==
    /\ fault \in ReadFaults
    /\ Return("session.requireAuth", NoArgs, fault,
              session_requireAuth(jar, now, fault))
    /\ UNCHANGED <<users, jar, now, pend>>

CallDashboardPage(fault) ==
    /\ fault \in ReadFaults
    /\ Return("DashboardPage", NoArgs, fault, DashboardPage(jar, now, fault))
    /\ UNCHANGED <<users, jar, now, pend>>

----------------------------------------------------------------------------
(* The admin check: session.ts                                             *)

Thrown(message) == [kind |-> "raise", message |-> message]

MsgUnauthorized == "Unauthorized - Admin access required"

\* an admin check that also wants a session token in the jar
getAdminSession_needsSession(j, fault) ==
    /\ fault # "cookies"
    /\ ~NoToken(CookieGet(j, ADMIN_COOKIE))
    /\ ~NoToken(CookieGet(j, COOKIE_NAME))

\* try { return !!cookieStore.get('admin-session')?.value } catch { return false }
getAdminSession(j, fault) ==
    IF fault = "cookies" THEN FALSE
    ELSE ~NoToken(CookieGet(j, ADMIN_COOKIE))

\* if (!isAdmin) throw new Error(...); return true
requireAdmin(j, fault) ==
    LET isAdmin == getAdminSession(j, fault)
    IN  IF ~isAdmin THEN Thrown(MsgUnauthorized) ELSE Returned(TRUE)

CallGetAdminSession(fault) ==
    /\ fault \in ReadFaults
    /\ Return("getAdminSession", NoArgs, fault, Returned(getAdminSession(jar, fault)))
    /\ UNCHANGED <<users, jar, now, pend>>

CallRequireAdmin(fault) ==
    /\ fault \in ReadFaults
    /\ Return("requireAdmin", NoArgs, fault, requireAdmin(jar, fault))
    /\ UNCHANGED <<users, jar, now, pend>>

----------------------------------------------------------------------------
(* The token service called directly                                       *)

\* the User values generateToken may be handed: id a string, or undefined
\* as register and login pass it; name a string or null
ClaimSets ==
    [id : {<<"u", "1">>, <<"u", "2">>, Undefined},
     email : {MailA, MailC, MailNoTld},
     name : {Ada, Empty, Null}]

CallGenerateToken(user) ==
    /\ Return("generateToken", user, "none", Returned(generateToken(user, now)))
    /\ UNCHANGED <<users, jar, now, pend>>

\* verifyToken on the token generateToken has just returned
CallVerifyToken ==
    /\ last.op = "generateToken"
    /\ Return("verifyToken", [token |-> last.result.value], "none",
              Returned(verifyToken(last.result.value, now)))
    /\ UNCHANGED <<users, jar, now, pend>>

----------------------------------------------------------------------------
(* The User repository: db.ts over the Prisma client                       *)

\* the fields of model User, and the ones a where-unique input may name
UserFields ==
    {"user_id", "email", "name", "password", "createdAt", "updatedAt",
     "reports", "locations"}
UserUnique == {"user_id", "email"}

RepoFaults == {"none", "store"}

\* select: { ... } applied to a row
Select(row, select) == [k \in select \cap DOMAIN row |-> row[k]]

\* the client rejects a query that names a field the model does not have,
\* before anything is sent to the store
QueryRejected(column, select, data) ==
    \/ column \notin UserUnique
    \/ ~(select \subseteq UserFields)
    \/ ~(DOMAIN data \subseteq UserFields)

\* prisma.user.findUnique({ where: { [column]: value }, select })
prismaFindUnique(us, column, value, select, fault) ==
    IF fault = "store" \/ QueryRejected(column, select, <<>>)
    THEN [threw |-> TRUE]
    ELSE IF \E u \in us : u[column] = value
    THEN [threw |-> FALSE,
          value |-> Select(CHOOSE u \in us : u[column] = value, select)]
    ELSE [threw |-> FALSE, value |-> NullObj]

\* prisma.user.create({ data, select }): the table afterwards and the reply
prismaCreate(us, data, select, fault) ==
    LET row == [user_id |-> uuid(us), email |-> data.email, name |-> data.name,
                password |-> data.password]
    IN  IF \/ fault = "store"
           \/ QueryRejected("email", select, data)
           \/ \E u \in us : u.email = data.email
        THEN [threw |-> TRUE, users |-> us]
        ELSE [threw |-> FALSE, users |-> us \cup {row}, value |-> Select(row, select)]

\* prisma.user.update({ where: { [column]: value }, data, select }); a row
\* that is not there is an error (P2025), and so is a taken e-mail (P2002)
prismaUpdate(us, column, value, data, select, fault) ==
    IF \/ fault = "store"
       \/ QueryRejected(column, select, data)
       \/ ~(\E u \in us : u[column] = value)
    THEN [threw |-> TRUE, users |-> us]
    ELSE LET old == CHOOSE u \in us : u[column] = value
             new == [k \in DOMAIN old |-> IF k \in DOMAIN data THEN data[k] ELSE old[k]]
         IN  IF \E u \in us \ {old} : u.email = new.email
             THEN [threw |-> TRUE, users |-> us]
             ELSE [threw |-> FALSE, users |-> (us \ {old}) \cup {new},
                   value |-> Select(new, select)]

\* try { return await findUnique(...) } catch { return null }
getUserByEmail(us, email, fault) ==
    LET q == prismaFindUnique(us, "email", email,
                              {"id", "name", "email", "password"}, fault)
    IN  IF q.threw THEN Returned(NullObj) ELSE Returned(q.value)

getUserById(us, id, fault) ==
    LET q == prismaFindUnique(us, "id", id, {"id", "name", "email"}, fault)
    IN  IF q.threw THEN Returned(NullObj) ELSE Returned(q.value)

CallGetUserById(id, fault) ==
    /\ fault \in RepoFaults
    /\ Return("getUserById", [id |-> id], fault, getUserById(users, id, fault))
    /\ UNCHANGED <<users, jar, now, pend>>

CallGetUserByEmail(email, fault) ==
    /\ fault \in RepoFaults
    /\ Return("getUserByEmail", [email |-> email], fault,
              getUserByEmail(users, email, fault))
    /\ UNCHANGED <<users, jar, now, pend>>

\* try { return await create(...) } catch (error) { throw error }
createUser(data, fault) ==
    LET q == prismaCreate(users, data, {"id", "name", "email"}, fault)
    IN  /\ fault \in RepoFaults
        /\ Cardinality(users) + Cardinality(InFlight) < MaxUsers
        /\ users' = q.users
        /\ Return("createUser", [data |-> data], fault,
                  IF q.threw THEN Raised ELSE Returned(q.value))
        /\ UNCHANGED <<jar, now, pend>>

\* try { return await update(...) } catch { return null }
updateUser(id, data, fault) ==
    LET q == prismaUpdate(users, "id", id, data, {"id", "name", "email"}, fault)
    IN  /\ fault \in RepoFaults
        /\ users' = q.users
        /\ Return("updateUser", [id |-> id, data |-> data], fault,
                  IF q.threw THEN Returned(NullObj) ELSE Returned(q.value))
        /\ UNCHANGED <<jar, now, pend>>

\* what the repository is called with: ids as the table issues them and one
\* it never issued, passwords as a caller holds them
RepoIds == {<<"u", "1">>, <<"u", "2">>, <<"u", "9">>}
CreateInputs ==
    {[name |-> Ada, email |-> MailA, password |-> Pw8],
     [name |-> Ada, email |-> MailC, password |-> Pw7]}
UpdateInputs == <<[password |-> Pw8], [name |-> Empty], [email |-> MailC]>>

----------------------------------------------------------------------------
(* The environment: the clock and what a client may put in its cookie jar  *)

Tick ==
    /\ \E t \in Times : t > now /\ now' = t
    /\ UNCHANGED <<users, jar, pend, last>>

\* cookie values a client can make up without the server's secret: junk, a
\* token signed with a key of its own, and the token it holds
\* with the e-mail claim rewritten under the old signature
Forgeries(j, t) ==
    LET victim == [id |-> <<"u", "1">>, email |-> MailA, name |-> Ada]
        held == CookieGet(j, COOKIE_NAME)
    IN  {Text(<<"x">>),
         [kind |-> "jwt", claims |-> victim, iat |-> t, exp |-> t + EXPIRES_IN,
          sig |-> Hmac("attacker-key", victim, t, t + EXPIRES_IN)]}
        \cup (IF held.kind = "jwt" /\ "email" \in DOMAIN held.claims
              THEN {[held EXCEPT !.claims = [held.claims EXCEPT !["email"] = MailNoTld]]}
              ELSE {})

ClientSetCookie(name, value) ==
    /\ jar' = CookieSet(jar, name, value, <<>>)
    /\ UNCHANGED <<users, now, pend, last>>

\* values a client can send in the admin-session cookie; 'admin-session='
\* carries the empty string
AdminValues == {Text(<<"1">>), Text(<<"x">>), Text(Empty)}

\* the client drops a cookie from its jar
ClientDeleteCookie(name) ==
    /\ name \in DOMAIN jar
    /\ jar' = CookieDelete(jar, name)
    /\ UNCHANGED <<users, now, pend, last>>

\* where a client keeps a copy of the token it was given; the server reads
\* no cookie of this name
CLIENT_COPY == "token-copy"

ClientKeepsToken ==
    /\ COOKIE_NAME \in DOMAIN jar
    /\ ClientSetCookie(CLIENT_COPY, jar[COOKIE_NAME].value)

\* the client presents the kept token again once its session cookie is gone
ClientReplaysToken ==
    /\ CLIENT_COPY \in DOMAIN jar
    /\ COOKIE_NAME \notin DOMAIN jar
    /\ ClientSetCookie(COOKIE_NAME, jar[CLIENT_COPY].value)

----------------------------------------------------------------------------
(* The specification                                                       *)

Init ==
    /\ users = {}
    /\ jar = <<>>
    /\ now = 0
    /\ pend = [s \in Slots |-> Idle]
    /\ last = [op |-> "none", args |-> NoArgs, fault |-> "none",
               result |-> Returned(Void)]

\* registration through the three entry points, one request at a time
NextRegister ==
    \/ \E d \in DirectInputs : register("r1", d[1], d[2], d[3], "none")
    \/ \E d \in DirectInputs : registerHandler("r1", d[1], d[2], d[3], "none")
    \/ \E i \in FormInputs : handleRegister("r1", i[1], i[2], i[3], i[4], "none")
    \/ RegisterContinue("r1", "none")
    \/ CallGetCurrentUser("none")
    \/ CallSessionGetCurrentUser("none")
    \/ logout("none")
    \/ Tick

SpecRegister == Init /\ [][NextRegister]_vars

\* two registrations in flight at once
NextRace ==
    \/ \E r \in Slots, d \in DirectInputs : register(r, d[1], d[2], d[3], "none")
    \/ \E r \in Slots, d \in DirectInputs : registerHandler(r, d[1], d[2], d[3], "none")
    \/ \E r \in Slots : RegisterContinue(r, "none")

SpecRace == Init /\ [][NextRace]_vars

\* login through the three entry points against a table filled by register
NextLogin ==
    \/ \E d \in DirectInputs : register("r1", d[1], d[2], d[3], "none")
    \/ RegisterContinue("r1", "none")
    \/ \E c \in LoginInputs : login("r2", c[1], c[2], "none")
    \/ \E c \in LoginInputs : loginHandler("r2", c[1], c[2], "none")
    \/ \E c \in LoginInputs : handleLogin("r2", c[1], c[2], "none")
    \/ LoginContinue("r2", "none")
    \/ CallGetCurrentUser("none")

SpecLogin == Init /\ [][NextLogin]_vars

\* sessions: what is in the cookie jar, when, and who reads it
NextSession ==
    \/ \E d \in Accounts : register("r1", d[1], d[2], d[3], "none")
    \/ RegisterContinue("r1", "none")
    \/ \E c \in Credentials : login("r1", c[1], c[2], "none")
    \/ LoginContinue("r1", "none")
    \/ \E f \in Faults : logout(f)
    \/ logoutHandler
    \/ \E f \in Faults : CallGetCurrentUser(f)
    \/ \E f \in Faults : CallSessionGetCurrentUser(f)
    \/ \E f \in Faults : CallRequireAuth(f)
    \/ \E f \in Faults : CallSessionRequireAuth(f)
    \/ \E f \in Faults : CallDashboardPage(f)
    \/ Tick
    \/ \E v \in Forgeries(jar, now) : ClientSetCookie(COOKIE_NAME, v)

SpecSession == Init /\ [][NextSession]_vars

\* the admin check against every jar a client can present
NextAdmin ==
    \/ \E d \in DirectInputs : register("r1", d[1], d[2], d[3], "none")
    \/ RegisterContinue("r1", "none")
    \/ logout("none")
    \/ Tick
    \/ \E v \in Forgeries(jar, now) : ClientSetCookie(COOKIE_NAME, v)
    \/ \E v \in AdminValues : ClientSetCookie(ADMIN_COOKIE, v)
    \/ ClientDeleteCookie(ADMIN_COOKIE)
    \/ \E f \in Faults : CallGetAdminSession(f)
    \/ \E f \in Faults : CallRequireAdmin(f)

SpecAdmin == Init /\ [][NextAdmin]_vars

\* the token service alone: sign a claim set, let time pass, verify
NextToken ==
    \/ \E u \in ClaimSets : CallGenerateToken(u)
    \/ CallVerifyToken
    \/ Tick

SpecToken == Init /\ [][NextToken]_vars

\* every entry point of register and login with an exception at every step
NextFaults ==
    \/ \E d \in Accounts, f \in Faults : register("r1", d[1], d[2], d[3], f)
    \/ \E d \in Accounts, f \in Faults : registerHandler("r1", d[1], d[2], d[3], f)
    \/ \E i \in FormInputs, f \in Faults : handleRegister("r1", i[1], i[2], i[3], i[4], f)
    \/ \E f \in Faults : RegisterContinue("r1", f)
    \/ \E c \in LoginInputs, f \in Faults : login("r1", c[1], c[2], f)
    \/ \E c \in LoginInputs, f \in Faults : loginHandler("r1", c[1], c[2], f)
    \/ \E c \in LoginInputs, f \in Faults : handleLogin("r1", c[1], c[2], f)
    \/ \E f \in Faults : LoginContinue("r1", f)

SpecFaults == Init /\ [][NextFaults]_vars

\* the repository beside the registration that fills the table
NextRepo ==
    \/ \E d \in DirectInputs : register("r1", d[1], d[2], d[3], "none")
    \/ \E d \in DirectInputs : registerHandler("r1", d[1], d[2], d[3], "none")
    \/ RegisterContinue("r1", "none")
    \/ \E id \in RepoIds, f \in RepoFaults : CallGetUserById(id, f)
    \/ \E e \in Emails, f \in RepoFaults : CallGetUserByEmail(e, f)
    \/ \E d \in CreateInputs, f \in RepoFaults : createUser(d, f)
    \/ \E id \in RepoIds, i \in DOMAIN UpdateInputs, f \in RepoFaults :
           updateUser(id, UpdateInputs[i], f)

SpecRepo == Init /\ [][NextRepo]_vars

\* tokens kept by the client across login, logout and the expiry time
NextReplay ==
    \/ \E d \in Accounts : register("r1", d[1], d[2], d[3], "none")
    \/ RegisterContinue("r1", "none")
    \/ \E c \in Credentials : login("r1", c[1], c[2], "none")
    \/ LoginContinue("r1", "none")
    \/ logout("none")
    \/ Tick
    \/ ClientKeepsToken
    \/ ClientReplaysToken
    \/ \E v \in Forgeries(jar, now) : ClientSetCookie(COOKIE_NAME, v)
    \/ CallGetCurrentUser("none")

SpecReplay == Init /\ [][NextReplay]_vars

----------------------------------------------------------------------------
(* Predicates the properties share, stated without the operators of the    *)
(* code they are about                                                     *)

Stored(email) == \E u \in users : u.email = email

RowOf(email) == CHOOSE u \in users : u.email = email

\* the jar holds a token signed with the server's secret and not yet expired
ValidSession(j, t) ==
    /\ COOKIE_NAME \in DOMAIN j
    /\ j[COOKIE_NAME].value.kind = "jwt"
    /\ j[COOKIE_NAME].value.sig.key = JWT_SECRET
    /\ j[COOKIE_NAME].value.sig.claims = j[COOKIE_NAME].value.claims
    /\ j[COOKIE_NAME].value.sig.iat = j[COOKIE_NAME].value.iat
    /\ j[COOKIE_NAME].value.sig.exp = j[COOKIE_NAME].value.exp
    /\ t < j[COOKIE_NAME].value.exp

\* an object carries the identity of row u: its key, e-mail and name
Carries(obj, u) ==
    /\ Get(obj, "id") = u.user_id
    /\ Get(obj, "email") = u.email
    /\ Get(obj, "name") = u.name

\* the registration preconditions of the specification
PassesValidation(name, email, password) ==
    /\ ~Falsy(name) /\ ~Falsy(email) /\ ~Falsy(password)
    /\ isValidEmail(email)
    /\ Len(password) >= MIN_PASSWORD

----------------------------------------------------------------------------
(* C1: after register has succeeded for a valid input with an unused       *)
(* e-mail, the session cookie is set and getCurrentUser(), called before   *)
(* any other call and before the token expires, returns the id, e-mail and *)
(* name of the row that was created.                                       *)
C1_RegisterThenCurrentUser ==
    (/\ last.op = "register"
     /\ PassesValidation(last.args.name, last.args.email, last.args.password)
     /\ last.result.success) =>
        /\ Stored(last.args.email)
        /\ COOKIE_NAME \in DOMAIN jar
        /\ now < jar[COOKIE_NAME].value.exp =>
               LET user == getCurrentUser(jar, now, "none")
               IN  /\ user.kind = "return"
                   /\ user.value # NullObj
                   /\ Carries(user.value, RowOf(last.args.email))

----------------------------------------------------------------------------
(* C2: a register or registerHandler call whose e-mail is already stored,  *)
(* and whose lookup the store answers, returns 'User already exists' (409  *)
(* from the route handler) and leaves the User rows as they were.          *)
C2_DuplicateEmailConflict ==
    [][\A d \in DirectInputs :
          Stored(d[2]) =>
              /\ register("r1", d[1], d[2], d[3], "none") =>
                     /\ last'.result = [success |-> FALSE, message |-> MsgExists]
                     /\ users' = users
                     /\ pend' = pend
              /\ registerHandler("r1", d[1], d[2], d[3], "none") =>
                     /\ last'.result.status = 409
                     /\ last'.result.body = [success |-> FALSE, message |-> MsgExists]
                     /\ users' = users
                     /\ pend' = pend]_vars

C2_Witness ==
    /\ last.op = "registerHandler"
    /\ last.fault = "none"
    /\ last.result.status = 409
    /\ Stored(last.args.email)
    /\ Cardinality(users) = 1

UnknownEmail(c) == ~Stored(c[1])

WrongPassword(c) ==
    Stored(c[1]) /\ RowOf(c[1]).password.hash # Bcrypt(c[2], RowOf(c[1]).password.salt)

----------------------------------------------------------------------------
(* C3: on every reachable User table, login and loginHandler answer a      *)
(* wrong password for a stored e-mail exactly as they answer an e-mail     *)
(* that is not stored: same success flag, same message, same status.       *)
C3_SameInvalidCredentials ==
    \A c1 \in LoginInputs, c2 \in LoginInputs :
        (UnknownEmail(c1) /\ WrongPassword(c2)) =>
            /\ loginResult(users, c1[1], c1[2], "none")
                   = loginResult(users, c2[1], c2[2], "none")
            /\ loginHandlerResponse(users, c1[1], c1[2], "none")
                   = loginHandlerResponse(users, c2[1], c2[2], "none")

C3_Witness ==
    /\ last.op = "login"
    /\ last.fault = "none"
    /\ WrongPassword(<<last.args.email, last.args.password>>)
    /\ last.result = [success |-> FALSE, message |-> MsgInvalid]
    /\ \E c \in LoginInputs : UnknownEmail(c)

----------------------------------------------------------------------------
(* C4: login succeeds only for a stored e-mail whose digest the password   *)
(* verifies against, and then the user it returns and the token in the     *)
(* cookie it writes carry the id, e-mail and name of that row.             *)
C4_LoginCarriesRowIdentity ==
    (last.op = "login" /\ last.result.success) =>
        /\ Stored(last.args.email)
        /\ ~WrongPassword(<<last.args.email, last.args.password>>)
        /\ Carries(last.result.user, RowOf(last.args.email))
        /\ COOKIE_NAME \in DOMAIN jar
        /\ Carries(jar[COOKIE_NAME].value.claims, RowOf(last.args.email))

----------------------------------------------------------------------------
(* C5: when two registrations of one unused e-mail are in flight together, *)
(* at most one row with that e-mail is stored and the call whose insert    *)
(* the unique constraint refuses returns 'User already exists'.            *)
C5_RaceSurfacesConflict ==
    /\ \A u1 \in users, u2 \in users : u1.email = u2.email => u1 = u2
    /\ (last.op = "register" /\ ~last.result.success /\ Stored(last.args.email)) =>
           last.result.message = MsgExists

----------------------------------------------------------------------------
(* C6: no registration entry point lets an input that fails validation     *)
(* (an empty field, a malformed e-mail, a password shorter than 8) reach   *)
(* the store: none is ever waiting for its insert and no row holds one.    *)
C6_ValidatedBeforeStore ==
    /\ \A s \in Slots :
           pend[s] # Idle =>
               PassesValidation(pend[s].args.name, pend[s].args.email,
                                pend[s].args.password)
    /\ \A u \in users : ~Falsy(u.name) /\ isValidEmail(u.email)

----------------------------------------------------------------------------
(* C7: in handleRegister, with a name, a well-formed unused e-mail and a   *)
(* confirmation equal to the password, a password of 7 characters is       *)
(* answered 'Password must be at least 8 characters long' and nothing is   *)
(* stored; a password of 8 characters goes on to register, which (the      *)
(* store working and the e-mail still unused) inserts the row and answers  *)
(* success.                                                                *)
C7_PasswordBoundary ==
    [][/\ \A i \in FormInputs :
              (/\ ~Falsy(i[1]) /\ isValidEmail(i[2]) /\ i[3] = i[4]
               /\ ~Stored(i[2])
               /\ handleRegister("r1", i[1], i[2], i[3], i[4], "none")) =>
                  /\ Len(i[3]) = 7 =>
                         /\ last'.result = [error |-> MsgShort]
                         /\ users' = users
                         /\ pend' = pend
                  /\ Len(i[3]) = 8 =>
                         pend'["r1"] = [op |-> "handleRegister",
                                        args |-> Args(i[1], i[2], i[3], i[4]),
                                        stage |-> "insert"]
       /\ \A s \in Salts :
              (/\ pend["r1"].op = "handleRegister"
               /\ ~Stored(pend["r1"].args.email)
               /\ RegisterCreate("r1", "none", s)) =>
                  \E u \in users' \ users :
                      /\ u.email = pend["r1"].args.email
                      /\ u.password.hash
                             = Bcrypt(pend["r1"].args.password, u.password.salt)
       /\ (pend["r1"].op = "handleRegister" /\ RegisterSetCookie("r1", "none")) =>
              /\ last'.result = [success |-> TRUE]
              /\ Stored(pend["r1"].args.email)]_vars

C7_Witness ==
    /\ last.op = "handleRegister"
    /\ Len(last.args.password) = 8
    /\ last.args.password = last.args.confirm
    /\ last.result = [success |-> TRUE]
    /\ Stored(last.args.email)

----------------------------------------------------------------------------
(* C8: logout and logoutHandler, whatever the jar holds (no cookie, a      *)
(* valid token, a forged one), return normally with the session cookie     *)
(* absent and the User rows untouched, and a second logout changes         *)
(* nothing more.                                                           *)
C8_LogoutIdempotent ==
    [][/\ logout("none") =>
              /\ last'.result.kind = "return"
              /\ COOKIE_NAME \notin DOMAIN jar'
              /\ CookieDelete(jar', COOKIE_NAME) = jar'
              /\ users' = users
       /\ logoutHandler =>
              /\ last'.result.body.success
              /\ COOKIE_NAME \notin DOMAIN jar'
              /\ CookieDelete(jar', COOKIE_NAME) = jar'
              /\ users' = users]_vars

C8_Witness ==
    /\ last.op = "logout"
    /\ last.fault = "none"
    /\ last.result.kind = "return"
    /\ COOKIE_NAME \notin DOMAIN jar
    /\ users # {}

CurrentUserContract(result, fault) ==
    /\ result.kind = "return"
    /\ (result.value # NullObj) <=> (fault = "none" /\ ValidSession(jar, now))
    /\ result.value # NullObj =>
           /\ Get(result.value, "email") = Get(jar[COOKIE_NAME].value.claims, "email")
           /\ Get(result.value, "name") = Get(jar[COOKIE_NAME].value.claims, "name")
           /\ Get(result.value, "id") = Get(jar[COOKIE_NAME].value.claims, "id")

----------------------------------------------------------------------------
(* C9: both getCurrentUser implementations always return: null when the    *)
(* cookie is absent, forged, malformed or expired or cannot be read, and   *)
(* the decoded payload exactly when the jar holds a token signed with the  *)
(* server's secret and not yet expired.                                    *)
C9_GetCurrentUserNeverRaises ==
    [][\A f \in ReadFaults :
          /\ CallGetCurrentUser(f) => CurrentUserContract(last'.result, f)
          /\ CallSessionGetCurrentUser(f) => CurrentUserContract(last'.result, f)]_vars

GuardContract(result, current) ==
    /\ result.kind = "return" =>
           ValidSession(jar, now) /\ result.value # NullObj
    /\ current = Returned(NullObj) => result = Redirect("/login")

----------------------------------------------------------------------------
(* C10: requireAuth (both implementations) returns a user only when the    *)
(* jar holds a token signed with the server's secret and not yet expired;  *)
(* whenever getCurrentUser() is null it redirects to /login, and           *)
(* DashboardPage then renders nothing.                                     *)
C10_RequireAuthGuards ==
    [][\A f \in ReadFaults :
          /\ CallRequireAuth(f) =>
                 GuardContract(last'.result, getCurrentUser(jar, now, f))
          /\ CallSessionRequireAuth(f) =>
                 GuardContract(last'.result, session_getCurrentUser(jar, now, f))
          /\ CallDashboardPage(f) =>
                 /\ last'.result.kind = "return" => ValidSession(jar, now)
                 /\ session_getCurrentUser(jar, now, f) = Returned(NullObj) =>
                        last'.result = Redirect("/login")]_vars

C10_Witness ==
    /\ last.op = "DashboardPage"
    /\ last.result = Redirect("/login")
    /\ COOKIE_NAME \in DOMAIN jar
    /\ jar[COOKIE_NAME].value.kind = "jwt"
    /\ jar[COOKIE_NAME].value.sig.key # JWT_SECRET

----------------------------------------------------------------------------
\* the admin-session cookie is in the jar, with whatever value
AdminCookiePresent(j) == ADMIN_COOKIE \in DOMAIN j

\* the admin-session cookie is in the jar with a value that is not ''
AdminCookieNonEmpty(j) ==
    /\ ADMIN_COOKIE \in DOMAIN j
    /\ ~(j[ADMIN_COOKIE].value.kind = "text" /\ j[ADMIN_COOKIE].value.text = <<>>)

(* C11 as stated: requireAdmin, when the cookie jar can be read, raises    *)
(* Unauthorized if the admin-session cookie is absent and returns true if  *)
(* it is present, whatever its value and whatever the session token.       *)
C11_PresenceOnly ==
    [][CallRequireAdmin("none") =>
         last'.result = IF AdminCookiePresent(jar) THEN Returned(TRUE)
                        ELSE Thrown("Unauthorized - Admin access required")]_vars

(* C11: requireAdmin returns true exactly when the jar is read and holds   *)
(* an admin-session cookie whose value is not the empty string, and raises *)
(* Unauthorized otherwise (absent, empty, or the jar cannot be read); the  *)
(* session token, valid, forged, expired or missing, has no part in it.    *)
C11_NonEmptyAdminCookie ==
    [][\A f \in ReadFaults :
         CallRequireAdmin(f) =>
           last'.result = IF f = "none" /\ AdminCookieNonEmpty(jar)
                          THEN Returned(TRUE)
                          ELSE Thrown("Unauthorized - Admin access required")]_vars

\* admitted as admin on a non-empty admin-session cookie with no session
\* token in the jar at all
C11_Witness ==
    /\ last.op = "requireAdmin"
    /\ last.result = Returned(TRUE)
    /\ AdminCookieNonEmpty(jar)
    /\ COOKIE_NAME \notin DOMAIN jar

----------------------------------------------------------------------------
(* C12: for every claim set (id, email, name), verifyToken applied to the  *)
(* token generateToken made of it, less than 30 days after it was made,    *)
(* returns an object whose id, email and name read as the originals.       *)
C12_TokenRoundTrip ==
    [][(CallVerifyToken /\ now < last.result.value.iat + 30 * 24 * 60 * 60) =>
         /\ last'.result.value # NullObj
         /\ \A k \in {"id", "email", "name"} :
              Get(last'.result.value, k) = last.args[k]]_vars

\* a token with a null name and a string id, verified in the last second
\* before it expires
C12_Witness ==
    /\ last.op = "verifyToken"
    /\ last.result.value # NullObj
    /\ Get(last.result.value, "name") = Null
    /\ Get(last.result.value, "id") = <<"u", "2">>
    /\ now = last.result.value.exp - 1

----------------------------------------------------------------------------
\* a login resumed with the row its lookup returned meets the exception f
LoginMeets(user, password, f) ==
    /\ user # NullObj
    /\ \/ f = "compare"
       \/ /\ f = "sign"
          /\ user.password.hash = <<user.password.salt, password>>

GenericLoginFailure ==
    [success |-> FALSE, message |-> "An error occurred during login"]

GenericRegisterFailure ==
    [success |-> FALSE, message |-> "An error occurred during registration"]

(* C13: an exception at any step of register, login, registerHandler or    *)
(* loginHandler (lookup, hashing, insert, password comparison, token       *)
(* signing, cookie write) is caught: the call returns the failure result   *)
(* with its fixed generic message, status 500 from the route handlers, and *)
(* nothing else in it.                                                     *)
C13_ExceptionsBecomeGenericFailure ==
    [][LET a == last'.args
           f == last'.fault
           p == pend["r1"]
       IN  /\ login("r1", a.email, a.password, "findUnique")
                => last'.result = GenericLoginFailure
           /\ loginHandler("r1", a.email, a.password, "findUnique")
                => last'.result = [status |-> 500, body |-> GenericLoginFailure]
           /\ (LoginResume("r1", f) /\ LoginMeets(p.user, p.args.password, f)) =>
                /\ p.op = "login" => last'.result = GenericLoginFailure
                /\ p.op = "loginHandler"
                     => last'.result = [status |-> 500, body |-> GenericLoginFailure]
           /\ LoginSetCookie("r1", "cookies") =>
                /\ p.op = "login" => last'.result = GenericLoginFailure
                /\ p.op = "loginHandler"
                     => last'.result = [status |-> 500, body |-> GenericLoginFailure]
           /\ register("r1", a.name, a.email, a.password, "findUnique")
                => last'.result = GenericRegisterFailure
           /\ registerHandler("r1", a.name, a.email, a.password, "findUnique")
                => last'.result = [status |-> 500, body |-> GenericRegisterFailure]
           /\ (f # "none" /\ RegisterContinue("r1", f)) =>
                /\ p.op = "register" => last'.result = GenericRegisterFailure
                /\ p.op = "registerHandler"
                     => last'.result = [status |-> 500, body |-> GenericRegisterFailure]
      ]_vars

\* registerHandler has answered 500 with the generic message after the
\* cookie write threw, the last step there is
C13_Witness ==
    /\ last.op = "registerHandler"
    /\ last.fault = "cookies"
    /\ last.result = [status |-> 500, body |-> GenericRegisterFailure]
    /\ Stored(last.args.email)

----------------------------------------------------------------------------
\* a failure result of login, register, handleLogin or handleRegister
FailureResult(result) ==
    \/ "success" \in DOMAIN result /\ ~result.success
    \/ "error" \in DOMAIN result

\* a step in which the login, handleLogin, register or handleRegister call
\* of slot r returns
Returns(r) ==
    LET a == last'.args
        f == last'.fault
    IN  /\ pend'[r] = Idle
        /\ last'.op \in {"login", "handleLogin", "register", "handleRegister"}
        /\ \/ login(r, a.email, a.password, f)
           \/ handleLogin(r, a.email, a.password, f)
           \/ register(r, a.name, a.email, a.password, f)
           \/ handleRegister(r, a.name, a.email, a.password, a.confirm, f)
           \/ LoginContinue(r, f)
           \/ RegisterContinue(r, f)

\* the call of slot r has inserted its row at an earlier step
Inserted(r) ==
    /\ pend[r] # Idle
    /\ "newUser" \in DOMAIN pend[r]
    /\ pend[r].newUser \in users

(* C17: a login, register, handleLogin or handleRegister call that returns  *)
(* a failure result leaves the cookie jar and the User rows exactly as     *)
(* they were: it writes neither in the step that returns nor in any step   *)
(* before it.                                                              *)
C17_FailureChangesNothing ==
    [][(Returns("r1") /\ FailureResult(last'.result))
         => (jar' = jar /\ users' = users /\ ~Inserted("r1"))]_vars

\* what does hold: a failing call never writes the cookie jar, a failing
\* login never writes the table, and a failing register has written it
\* exactly when the exception came after its insert
FailureFrameButForLateExceptions ==
    [][(Returns("r1") /\ FailureResult(last'.result)) =>
            /\ jar' = jar
            /\ users' = users
            /\ Inserted("r1") <=>
                   /\ last'.op \in {"register", "handleRegister"}
                   /\ last'.fault \in {"sign", "cookies"}
                   /\ pend["r1"] # Idle
      ]_vars

----------------------------------------------------------------------------
RepoOps == {"getUserById", "getUserByEmail", "createUser", "updateUser"}

\* the row the last repository call asked for is not in the table
AskedRowAbsent ==
    IF "email" \in DOMAIN last.args THEN ~Stored(last.args.email)
    ELSE ~(\E u \in users : u.user_id = last.args.id)

(* C14: in the User repository a store failure in any of the four          *)
(* operations surfaces as a raised error, and a null result is returned    *)
(* only when the store answered and the row asked for is not there.        *)
C14_NullMeansNotFound ==
    last.op \in RepoOps =>
        /\ last.fault = "store" => last.result.kind = "raise"
        /\ (last.op # "createUser" /\ last.result = Returned(NullObj)) =>
               (last.fault = "none" /\ AskedRowAbsent)

----------------------------------------------------------------------------
(* C15: in every reachable state, whatever register, registerHandler,      *)
(* createUser and updateUser calls came before, the password of every      *)
(* stored User is a bcrypt digest of cost 10 over some password and its    *)
(* own salt, and is not a password as a caller types it.                   *)
C15_StoredPasswordsAreDigests ==
    \A u \in users :
        /\ u.password.rounds = 10
        /\ \E p \in Passwords : u.password.hash = <<u.password.salt, p>>
        /\ u.password.hash \notin Passwords

\* two rows written by register and registerHandler, then an updateUser
\* that was handed a raw password for the first of them
C15_Witness ==
    /\ Cardinality(users) = 2
    /\ last.op = "updateUser"
    /\ last.args.id = <<"u", "1">>
    /\ "password" \in DOMAIN last.args.data

----------------------------------------------------------------------------
\* a token whose signature is the server's over its own payload
ServerSigned(token) ==
    /\ token.kind = "jwt"
    /\ token.sig = [key |-> "your-secret-key", claims |-> token.claims,
                    iat |-> token.iat, exp |-> token.exp]

(* C16: in every reachable state, whatever logins, registrations and       *)
(* logouts have happened, a token the client holds is accepted by          *)
(* verifyToken exactly when it carries the server's signature and fewer    *)
(* than 30 days have passed since it was issued; the cookie the server     *)
(* writes it in has the same 30 days as its max-age.                       *)
C16_StatelessToken ==
    \A n \in DOMAIN jar :
        LET token == jar[n].value
        IN  /\ (verifyToken(token, now) # NullObj) <=>
                   (ServerSigned(token) /\ now < token.iat + 30 * 24 * 60 * 60)
            /\ (ServerSigned(token) /\ "maxAge" \in DOMAIN jar[n]) =>
                   /\ jar[n].maxAge = 30 * 24 * 60 * 60
                   /\ token.exp = token.iat + jar[n].maxAge

\* after a logout the client has put its kept token back, one second before
\* the token expires, and getCurrentUser() has accepted it
C16_Witness ==
    /\ last.op = "getCurrentUser"
    /\ last.result.value # NullObj
    /\ COOKIE_NAME \in DOMAIN jar
    /\ "maxAge" \notin DOMAIN jar[COOKIE_NAME]
    /\ ServerSigned(jar[COOKIE_NAME].value)
    /\ now = jar[COOKIE_NAME].value.exp - 1

====
